---------------------------- MODULE Spec2Model ----------------------------
(***************************************************************************)
(* Model of src/app/page.tsx: the AI cost estimator page.                  *)
(*                                                                         *)
(*   - CostCalculator, the pure cost formula, and ResultsTab, the          *)
(*     component that calls it;                                            *)
(*   - ChatTab, its sendMessage handler and the asynchronous reply of the  *)
(*     agent endpoint;                                                     *)
(*   - HomePage's handleWorkflowExtracted;                                 *)
(*   - EstimatorTab, its local state and effect, and the three tabs.       *)
(*                                                                         *)
(* Arithmetic.  The code computes in JavaScript numbers, and so does the   *)
(* model: every *, + and / of CostCalculator is the IEEE 754 binary64      *)
(* operation, rounded to nearest with ties to even.                        *)
(***************************************************************************)
EXTENDS Integers, Sequences, FiniteSets, TLC

VARIABLES
    messages,        \* ChatTab: useState<ChatMessage[]>([])          (line 65)
    input,           \* ChatTab: useState('')                         (line 66)
    loading,         \* ChatTab: useState(false)                      (line 67)
    pending,         \* sendMessage calls suspended at an await       (lines 94, 123)
    fetches,         \* number of fetch('/api/agent') calls issued    (line 94)
    lastSubmit,      \* what the last submit event did                (lines 75-76)
    consoleErrors,   \* number of console.error calls                 (line 146)
    workflowData,    \* HomePage: useState<WorkflowData | null>(null) (line 657)
    estimatorState,  \* HomePage: useState<EstimatorState>({...})     (line 658)
    state,           \* the argument of the last CostCalculator call  (line 476)
    costs,           \* the value that call returned                  (line 513)
    activeTab,       \* the selected tab of Tabs                      (line 697)
    estimator,       \* EstimatorTab: useState<EstimatorState>, when mounted (line 203)
    effectPending,   \* EstimatorTab: the effect is due to run        (line 216)
    renderError      \* a render of the page has thrown               (line 204)

chatVars == <<messages, input, loading, pending, fetches, lastSubmit, consoleErrors>>
pageVars == <<workflowData, estimatorState>>
calcVars == <<state, costs>>
tabVars == <<activeTab, estimator, effectPending, renderError>>
vars == <<messages, input, loading, pending, fetches, lastSubmit, consoleErrors,
          workflowData, estimatorState, state, costs,
          activeTab, estimator, effectPending, renderError>>

\* An absent value (null) is the empty tuple, a present value x is <<x>>.
None == <<>>
Some(x) == <<x>>

(***************************************************************************)
(* Numbers.  A JavaScript number is an IEEE 754 binary64 value; the ones   *)
(* that occur here are finite and not negative.  Such a value is           *)
(* m * 2^e for an integer m below 2^53: the record [m |-> m, e |-> e],     *)
(* where m is odd, or m is zero and e is 0.  The integer m is written as   *)
(* the sequence of its digits in base 2^14, least significant first,       *)
(* without leading zero digits; zero is the empty sequence.                *)
(***************************************************************************)

\* The digits without leading zeros.
RECURSIVE Trim(_)
Trim(a) ==
    IF a = <<>> THEN a
    ELSE IF a[Len(a)] = 0 THEN Trim(SubSeq(a, 1, Len(a) - 1)) ELSE a

\* The digits of a natural number.
RECURSIVE Digits(_)
Digits(n) == IF n = 0 THEN <<>> ELSE <<n % 16384>> \o Digits(n \div 16384)

Digit(a, i) == IF i \in 1..Len(a) THEN a[i] ELSE 0

BigAdd(a, b) ==
    LET n == IF Len(a) > Len(b) THEN Len(a) ELSE Len(b)
        RECURSIVE From(_, _)
        From(i, carry) ==
            IF i > n THEN (IF carry = 0 THEN <<>> ELSE <<carry>>)
            ELSE LET s == Digit(a, i) + Digit(b, i) + carry
                 IN  <<s % 16384>> \o From(i + 1, s \div 16384)
    IN  From(1, 0)

\* a - b, for a >= b.
BigSub(a, b) ==
    LET RECURSIVE From(_, _)
        From(i, borrow) ==
            IF i > Len(a) THEN <<>>
            ELSE LET s == a[i] - Digit(b, i) - borrow
                 IN  IF s < 0 THEN <<s + 16384>> \o From(i + 1, 1)
                     ELSE <<s>> \o From(i + 1, 0)
    IN  Trim(From(1, 0))

\* a * k, for a digit k.
BigMulDigit(a, k) ==
    LET RECURSIVE From(_, _)
        From(i, carry) ==
            IF i > Len(a) THEN (IF carry = 0 THEN <<>> ELSE <<carry>>)
            ELSE LET s == a[i] * k + carry
                 IN  <<s % 16384>> \o From(i + 1, s \div 16384)
    IN  IF k = 0 THEN <<>> ELSE From(1, 0)

RECURSIVE BigMul(_, _)
BigMul(a, b) ==
    IF a = <<>> \/ b = <<>> THEN <<>>
    ELSE LET rest == BigMul(a, Tail(b))
         IN  BigAdd(BigMulDigit(a, b[1]), IF rest = <<>> THEN rest ELSE <<0>> \o rest)

\* Quotient and remainder of a by k, for 0 < k <= 2^17: long division from
\* the most significant digit down, q holding the quotient's digits so far.
BigDivSmall(a, k) ==
    LET RECURSIVE From(_, _, _)
        From(i, rem, q) ==
            IF i = 0 THEN [q |-> q, r |-> rem]
            ELSE LET cur == rem * 16384 + a[i]
                 IN  From(i - 1, cur % k,
                          IF q = <<>> /\ cur < k THEN q ELSE <<cur \div k>> \o q)
    IN  From(Len(a), 0, <<>>)

\* -1, 0 or 1 as a is below, equal to or above b.
BigCmp(a, b) ==
    LET RECURSIVE From(_)
        From(i) ==
            IF i = 0 THEN 0
            ELSE IF a[i] < b[i] THEN 0 - 1
            ELSE IF a[i] > b[i] THEN 1
            ELSE From(i - 1)
    IN  IF Len(a) < Len(b) THEN 0 - 1
        ELSE IF Len(a) > Len(b) THEN 1
        ELSE From(Len(a))

RECURSIVE BitsOfDigit(_)
BitsOfDigit(d) == IF d = 0 THEN 0 ELSE 1 + BitsOfDigit(d \div 2)

BitLen(a) == IF a = <<>> THEN 0 ELSE 14 * (Len(a) - 1) + BitsOfDigit(a[Len(a)])

\* a * 2^n.
ShiftLeft(a, n) ==
    IF a = <<>> THEN a
    ELSE [i \in 1..(n \div 14) |-> 0] \o BigMulDigit(a, 2 ^ (n % 14))

\* The quotient dv.q, and whether the division or the digits dropped before
\* it lost a bit that is 1.
Dropped(dv, lost) == [q |-> dv.q, lost |-> dv.r # 0 \/ lost]

\* a \div 2^n, and whether a bit that is 1 was dropped.
ShiftRight(a, n) ==
    IF n \div 14 >= Len(a)
    THEN [q |-> <<>>, lost |-> a # <<>>]
    ELSE Dropped(BigDivSmall(SubSeq(a, n \div 14 + 1, Len(a)), 2 ^ (n % 14)),
                 \E i \in 1..(n \div 14) : a[i] # 0)

\* The number 0.
Zero == [m |-> <<>>, e |-> 0]

\* The largest power of 2 that divides n, for n > 0.
RECURSIVE TwoPart(_)
TwoPart(n) == IF n % 2 = 1 THEN 0 ELSE 1 + TwoPart(n \div 2)

\* The number m * 2^e, for an m whose odd part is below 2^53: the factors 2
\* of m go to the exponent.
RECURSIVE Odd(_, _)
Odd(m, e) ==
    IF m = <<>> THEN Zero
    ELSE IF m[1] = 0 THEN Odd(Tail(m), e + 14)
    ELSE [m |-> BigDivSmall(m, 2 ^ TwoPart(m[1])).q, e |-> e + TwoPart(m[1])]

\* Half of q, an integer of 54 bits, as the nearest integer: a q that is odd
\* goes up when bits below it were lost, and to the even half otherwise.
Nearest(q, lost) ==
    BigDivSmall(BigAdd(q, <<IF q[1] % 2 = 1 /\ (lost \/ q[1] % 4 = 3) THEN 1 ELSE 0>>), 2).q

\* The 54 bits sh.q times 2^(e - 1), rounded to 53 bits.
Halved(sh, e, sticky) == Odd(Nearest(sh.q, sh.lost \/ sticky), e)

\* The binary64 value nearest to m * 2^e for an m of len bits (to a value
\* just above it, when sticky and len > 53), ties to the even mantissa.
Rounded(m, e, sticky, len) ==
    IF len <= 53 THEN Odd(m, e)
    ELSE Halved(ShiftRight(m, len - 54), e + len - 53, sticky)

Round(m, e, sticky) == Rounded(m, e, sticky, BitLen(m))

\* The number with the value of a natural number below 2^31.
Num(n) == Odd(Digits(n), 0)

\* x * y (the operator * of lines 486-507).
Times(x, y) == Round(BigMul(x.m, y.m), x.e + y.e, FALSE)

\* The mantissas of x and y over their smaller exponent.
Aligned(x, y) ==
    LET e == IF x.e < y.e THEN x.e ELSE y.e
    IN  [x |-> ShiftLeft(x.m, x.e - e), y |-> ShiftLeft(y.m, y.e - e), e |-> e]

\* The sum of two aligned mantissas.
Sum(a) == Round(BigAdd(a.x, a.y), a.e, FALSE)

\* x + y (the operator + of lines 497-502).
Plus(x, y) ==
    IF x.m = <<>> THEN y
    ELSE IF y.m = <<>> THEN x
    ELSE Sum(Aligned(x, y))

\* -1, 0 or 1 as x is below, equal to or above y.
Cmp(x, y) == LET a == Aligned(x, y) IN BigCmp(a.x, a.y)

\* The quotient dv.q times 2^e, above it when the division left a remainder.
Quotient(dv, e) == Round(dv.q, e, dv.r # 0)

\* x / n for a natural number n whose odd part is at most 2^17 (the operator
\* / of lines 497-498, and the decimal literals): x.m * 2^72 is divided by
\* the odd part, which leaves a quotient of 55 bits or more.
Over(x, n) ==
    IF x.m = <<>> THEN Zero
    ELSE Quotient(BigDivSmall(ShiftLeft(x.m, 72), n \div (2 ^ TwoPart(n))),
                  x.e - 72 - TwoPart(n))

\* A decimal literal n/d of the source, such as 0.3 = 3/10: the nearest number.
Decimal(n, d) == Over(Num(n), d)

\* The number of digits of the decimal text of a natural number.
RECURSIVE DecimalLength(_)
DecimalLength(n) == IF n < 10 THEN 1 ELSE 1 + DecimalLength(n \div 10)

(***************************************************************************)
(* CostCalculator (lines 476-509).  A profile holds its counts as          *)
(* integers.  A field that holds the one-element array [n] instead of the  *)
(* number n (see handleSliderChange) holds n here and has its key in the   *)
(* member arrays of the profile, which is left out when no field holds an  *)
(* array.                                                                  *)
(***************************************************************************)

arraysOf(s) == IF "arrays" \in DOMAIN s THEN s.arrays ELSE {}

\* The profile s with the fields named in keys holding arrays, and no other.
withArrays(s, keys) ==
    IF keys = {}
    THEN [k \in DOMAIN s \ {"arrays"} |-> s[k]]
    ELSE [k \in DOMAIN s \cup {"arrays"} |-> IF k = "arrays" THEN keys ELSE s[k]]

\* The operand of a * : a number as it is, the array [n] as ToNumber("n").
toNumber(s, key) == Num(s[key])

\* A slip: the budget and premium rows exchanged.
pricingTiersSwapped ==
    [budget   |-> [input |-> Num(5), output |-> Num(15)],
     standard |-> [input |-> Num(3), output |-> Num(9)],
     premium  |-> [input |-> Decimal(50, 100), output |-> Decimal(150, 100)]]

\* Lines 477-481.
pricingTiers ==
    [budget   |-> [input |-> Decimal(50, 100), output |-> Decimal(150, 100)],
     standard |-> [input |-> Num(3), output |-> Num(9)],
     premium  |-> [input |-> Num(5), output |-> Num(15)]]

\* Line 486.
totalInputTokens(s) == Times(toNumber(s, "transactions_per_month"), toNumber(s, "input_tokens"))

\* Line 487.
totalOutputTokens(s) == Times(toNumber(s, "transactions_per_month"), toNumber(s, "output_tokens"))

\* state.input_tokens + state.output_tokens (line 488): the sum of two
\* numbers; with an array operand + joins the decimal texts of the two, and
\* the * that follows reads the text as a number.
inputPlusOutput(s) ==
    IF arraysOf(s) \cap {"input_tokens", "output_tokens"} # {}
    THEN Num(s.input_tokens * 10 ^ DecimalLength(s.output_tokens) + s.output_tokens)
    ELSE Plus(Num(s.input_tokens), Num(s.output_tokens))

\* A slip: the hop overhead taken on the input tokens only.
interAgentTokensInputOnly(s) ==
    Times(Times(Times(toNumber(s, "transactions_per_month"),
                      toNumber(s, "inter_agent_interactions")),
                toNumber(s, "input_tokens")),
          Decimal(3, 10))

\* Line 488, multiplied from left to right.
interAgentTokens(s) ==
    Times(Times(Times(toNumber(s, "transactions_per_month"),
                      toNumber(s, "inter_agent_interactions")),
                inputPlusOutput(s)),
          Decimal(3, 10))

\* Lines 491-494.
ragTokens(s) ==
    Times(Times(toNumber(s, "rag_queries"), toNumber(s, "transactions_per_month")), Num(200))

dbQueryTokens(s) ==
    Times(Times(toNumber(s, "db_queries"), toNumber(s, "transactions_per_month")), Num(150))

\* A slip: the tool overhead counted per database query.
toolCallTokensPerDbQuery(s) ==
    Times(Times(toNumber(s, "db_queries"), toNumber(s, "transactions_per_month")), Num(100))

toolCallTokens(s) ==
    Times(Times(toNumber(s, "tool_calls"), toNumber(s, "transactions_per_month")), Num(100))

\* A slip: the memory overhead charged while the feature is off.
memoryTokensWhenOff(s) ==
    IF s.memory_ops > 0 THEN Zero
    ELSE Times(toNumber(s, "transactions_per_month"), Num(100))

memoryTokens(s) ==
    Times(Times(toNumber(s, "memory_ops"), toNumber(s, "transactions_per_month")), Num(100))

\* A slip: the reflection overhead not multiplied by the transactions.
reflectionTokensFlat(s) ==
    IF s.reflection_enabled THEN Num(300) ELSE Zero

\* Line 495.
reflectionTokens(s) ==
    IF s.reflection_enabled
    THEN Times(toNumber(s, "transactions_per_month"), Num(300))
    ELSE Zero

\* The sum of lines 497 and 502, added from left to right.
inputTokenSum(s) ==
    Plus(Plus(Plus(Plus(Plus(Plus(totalInputTokens(s), interAgentTokens(s)),
                                  ragTokens(s)),
                             dbQueryTokens(s)),
                        toolCallTokens(s)),
                   memoryTokens(s)),
         reflectionTokens(s))

\* A slip: the year counted in weeks.
totalAnnualWeekly(totalMonthly) == Times(totalMonthly, Num(52))

\* Line 507.
totalAnnualOf(totalMonthly) == Times(totalMonthly, Num(12))

\* The object returned (lines 501-508).
returned(inputTokens, outputTokens, totalInputCost, totalOutputCost, totalMonthly) ==
    [inputTokens  |-> inputTokens,
     outputTokens |-> outputTokens,
     inputCost    |-> totalInputCost,
     outputCost   |-> totalOutputCost,
     totalMonthly |-> totalMonthly,
     totalAnnual  |-> totalAnnualOf(totalMonthly)]

\* Line 499.
totalled(inputTokens, outputTokens, totalInputCost, totalOutputCost) ==
    returned(inputTokens, outputTokens, totalInputCost, totalOutputCost,
             Plus(totalInputCost, totalOutputCost))

\* Lines 497-498.
priced(pricing, inputTokens, outputTokens) ==
    totalled(inputTokens, outputTokens,
             Times(Over(inputTokens, 1000000), pricing.input),
             Times(Over(outputTokens, 1000000), pricing.output))

\* Lines 476-509: each constant of the body is computed once and handed on.
CostCalculator(s) ==
    priced(pricingTiers[s.model_tier], inputTokenSum(s), totalOutputTokens(s))


(***************************************************************************)
(* The calculator on its own: every profile of a bounded set is passed to  *)
(* CostCalculator once.                                                    *)
(***************************************************************************)

TransactionValues == {0, 1, 100}
InputTokenValues == {0, 3, 500}
OutputTokenValues == {0, 4, 800}
InterAgentValues == {0, 1, 2}
RagValues == {0, 5}
DbValues == {0, 2}
ToolValues == {0, 2}
MemoryValues == {0, 2}
ModelTiers == {"budget", "standard", "premium"}

\* EstimatorState (lines 50-61).
Profiles ==
    [transactions_per_month   : TransactionValues,
     input_tokens             : InputTokenValues,
     output_tokens            : OutputTokenValues,
     inter_agent_interactions : InterAgentValues,
     rag_queries              : RagValues,
     db_queries               : DbValues,
     tool_calls               : ToolValues,
     memory_ops               : MemoryValues,
     reflection_enabled       : BOOLEAN,
     model_tier               : ModelTiers]

\* HomePage's initial estimatorState (lines 658-669).
DefaultEstimatorState ==
    [transactions_per_month   |-> 100,
     input_tokens             |-> 500,
     output_tokens            |-> 800,
     inter_agent_interactions |-> 1,
     rag_queries              |-> 0,
     db_queries               |-> 0,
     tool_calls               |-> 0,
     memory_ops               |-> 0,
     reflection_enabled       |-> FALSE,
     model_tier               |-> "standard"]

\* The state of the page after its first render (lines 65-67, 657-669, 697):
\* the chat tab is selected and EstimatorTab is not mounted.
InitPage ==
    /\ messages = <<>>
    /\ input = <<>>
    /\ loading = FALSE
    /\ pending = <<>>
    /\ fetches = 0
    /\ lastSubmit = "none"
    /\ consoleErrors = 0
    /\ workflowData = None
    /\ estimatorState = DefaultEstimatorState
    /\ activeTab = "chat"
    /\ estimator = None
    /\ effectPending = FALSE
    /\ renderError = FALSE

InitCalc ==
    /\ InitPage
    /\ state \in {Some(p) : p \in Profiles}
    /\ costs = None

\* const costs = CostCalculator(state) (line 513).
CostCalculatorCall ==
    /\ state # None
    /\ costs' = Some(CostCalculator(state[1]))
    /\ UNCHANGED <<state, chatVars, pageVars, tabVars>>

NextCalc == CostCalculatorCall

SpecCalc == InitCalc /\ [][NextCalc]_vars

(***************************************************************************)
(* Text.  The typed input is a string over InputChars.  A reply of the     *)
(* agent is a string of tokens, each token standing for a piece of         *)
(* text: an opening brace, a closing brace, the member                     *)
(* "business_problem": "..." alone ("bp"), the members of a complete       *)
(* WorkflowData ("wf", "wfBudget", "wfPlain"), and a run of prose without  *)
(* braces or that key ("w").  The text of a WorkflowData has braces of its *)
(* own, those of its nested objects features, volume_estimates and         *)
(* token_estimates (lines 29-47): Pieces spells it out, its second piece   *)
(* the members that tell one WorkflowData from another and "m" member text *)
(* without a brace or the key.                                             *)
(***************************************************************************)

InputChars == {" ", "a"}

\* The longest input typed and the most requests sent.
MaxInputLen == 2
MaxRequests == 2

StringsUpTo(alphabet, n) == UNION {[1..k -> alphabet] : k \in 0..n}

Inputs == StringsUpTo(InputChars, MaxInputLen)

RECURSIVE trimStart(_)
trimStart(str) ==
    IF str # <<>> /\ Head(str) = " " THEN trimStart(Tail(str)) ELSE str

RECURSIVE trimEnd(_)
trimEnd(str) ==
    IF str # <<>> /\ str[Len(str)] = " " THEN trimEnd(SubSeq(str, 1, Len(str) - 1)) ELSE str

\* String.prototype.trim (line 76).
trim(str) == trimEnd(trimStart(str))

\* The tokens that stand for the members of a complete WorkflowData.
WorkflowTokens == {"wf", "wfBudget", "wfPlain"}

\* The text of a token, cut at its braces and at "business_problem".
Pieces(token) ==
    IF token \in WorkflowTokens
    THEN <<"bp", token, "{", "m", "}", "m", "{", "m", "}", "m", "{", "m", "}">>
    ELSE <<token>>

\* The text of a reply, in pieces.
RECURSIVE Expand(_)
Expand(text) == IF text = <<>> THEN <<>> ELSE Pieces(Head(text)) \o Expand(Tail(text))

\* The pieces that contain the literal "business_problem".
HasKey(piece) == piece = "bp"

\* The last position at or before k where t holds a closing brace, the last
\* one where it holds the key, and the first position at or after i and
\* before k where it holds an opening brace; 0 when there is none.
RECURSIVE lastClose(_, _)
lastClose(t, k) ==
    IF k = 0 THEN 0 ELSE IF t[k] = "}" THEN k ELSE lastClose(t, k - 1)

RECURSIVE lastKey(_, _)
lastKey(t, k) ==
    IF k <= 0 THEN 0 ELSE IF HasKey(t[k]) THEN k ELSE lastKey(t, k - 1)

RECURSIVE firstOpen(_, _, _)
firstOpen(t, i, k) ==
    IF i >= k THEN 0 ELSE IF t[i] = "{" THEN i ELSE firstOpen(t, i + 1, k)

\* The span of the pieces t that line 129 matches: it ends at the last
\* closing brace of the text, holds the key before it, and starts at the
\* leftmost brace before a key.  None when nothing matches.
spanOf(t) ==
    LET close == lastClose(t, Len(t))
        key == lastKey(t, close - 1)
        open == firstOpen(t, 1, key)
    IN  IF open = 0 THEN None ELSE Some(SubSeq(t, open, close))

\* responseText.match(/\{[\s\S]*"business_problem"[\s\S]*\}/) (line 129):
\* None when nothing matches, else Some(jsonMatch[0]), in pieces.
jsonMatch(text) == CHOOSE match \in {spanOf(t) : t \in {Expand(text)}} : TRUE

\* The object a complete WorkflowData text denotes (lines 22-48).
FullWorkflow ==
    [business_problem  |-> "p",
     recommended_model |-> <<"Premium", "GPT-4">>,
     agents_required   |-> 3,
     features          |-> [rag |-> TRUE, memory |-> FALSE, db_queries |-> 2,
                            tool_calls |-> 0, reflection |-> TRUE],
     volume_estimates  |-> [workflows_per_day |-> 5],
     token_estimates   |-> [input_tokens |-> 1000, output_tokens |-> 0]]

\* A complete one that recommends the budget model, for no workflow a day
\* and without retrieval.
BudgetWorkflow ==
    [FullWorkflow EXCEPT !.recommended_model = <<"Budget">>,
                         !.volume_estimates.workflows_per_day = 0,
                         !.features.rag = FALSE]

\* One without the optional recommended_model (line 47) and without
\* agents_required.
PlainWorkflow ==
    [key \in DOMAIN FullWorkflow \ {"recommended_model", "agents_required"} |->
        FullWorkflow[key]]

\* The object each WorkflowData text denotes.
WorkflowOf == [wf |-> FullWorkflow, wfBudget |-> BudgetWorkflow, wfPlain |-> PlainWorkflow]

\* The object the member "business_problem" alone denotes.
PartialWorkflow == [business_problem |-> "p"]

\* The object {}.
EmptyObject == [key \in {} |-> "p"]

\* The members between the braces of an object text: whether they are
\* members at all, and the object they make; a later member overrides an
\* earlier one with the same key.
RECURSIVE membersOf(_)
membersOf(t) ==
    IF t = <<>> THEN [ok |-> TRUE, object |-> EmptyObject]
    ELSE IF Len(t) >= 13 /\ t[2] \in WorkflowTokens /\ SubSeq(t, 1, 13) = Pieces(t[2])
    THEN [ok     |-> membersOf(SubSeq(t, 14, Len(t))).ok,
          object |-> membersOf(SubSeq(t, 14, Len(t))).object @@ WorkflowOf[t[2]]]
    ELSE IF t[1] = "bp"
    THEN [ok     |-> membersOf(Tail(t)).ok,
          object |-> membersOf(Tail(t)).object @@ PartialWorkflow]
    ELSE [ok |-> FALSE, object |-> EmptyObject]

\* JSON.parse (line 132) of a text in pieces: an object text is a brace,
\* members, a brace.  [ok |-> FALSE] stands for the SyntaxError thrown.
JSONparse(text) ==
    LET n == Len(text)
        members == membersOf(SubSeq(text, 2, n - 1))
    IN  IF n < 2 THEN [ok |-> FALSE, value |-> None]
        ELSE IF text[1] # "{" \/ text[n] # "}" THEN [ok |-> FALSE, value |-> None]
        ELSE IF ~members.ok THEN [ok |-> FALSE, value |-> None]
        ELSE [ok |-> TRUE, value |-> Some(members.object)]

\* JSON.stringify (line 126) of an object given by its members.
JSONstringify(members) == <<"{">> \o members \o <<"}">>

(***************************************************************************)
(* HomePage.handleWorkflowExtracted (lines 671-687)                        *)
(***************************************************************************)

\* a || b on numbers: 0 is falsy.
OrElse(a, b) == IF a = 0 THEN b ELSE a

\* String.prototype.includes, on a string given by its words.
includes(str, word) == \E i \in DOMAIN str : str[i] = word

Has(data, key) == key \in DOMAIN data

\* data.key where a number is expected and where a boolean is: an absent
\* member reads as undefined, which is falsy as 0 and false are.
numberAt(data, key) == IF Has(data, key) THEN data[key] ELSE 0
flagAt(data, key) == IF Has(data, key) THEN data[key] ELSE FALSE

\* The object literal of lines 674-686.
profileOf(data) ==
    [transactions_per_month   |->
         OrElse(numberAt(data.volume_estimates, "workflows_per_day") * 22, 100),
     input_tokens             |-> OrElse(numberAt(data.token_estimates, "input_tokens"), 500),
     output_tokens            |-> OrElse(numberAt(data.token_estimates, "output_tokens"), 800),
     inter_agent_interactions |-> OrElse(numberAt(data, "agents_required"), 1),
     rag_queries              |-> IF flagAt(data.features, "rag") THEN 5 ELSE 0,
     db_queries               |-> OrElse(numberAt(data.features, "db_queries"), 0),
     tool_calls               |-> OrElse(numberAt(data.features, "tool_calls"), 0),
     memory_ops               |-> IF flagAt(data.features, "memory") THEN 2 ELSE 0,
     reflection_enabled       |-> (flagAt(data.features, "reflection") \/ FALSE),
     model_tier               |->
         IF Has(data, "recommended_model") /\ includes(data.recommended_model, "Budget")
         THEN "budget"
         ELSE IF Has(data, "recommended_model") /\ includes(data.recommended_model, "Premium")
              THEN "premium"
              ELSE "standard"]

\* Lines 671-687 applied to the page state (wd, es).  setWorkflowData(data)
\* is queued first (line 672); reading a member of an absent
\* volume_estimates, token_estimates or features then throws a TypeError
\* (lines 675-683) before setEstimatorState is called, and the queued update
\* stays.
handleWorkflowExtracted(data, wd, es) ==
    IF Has(data, "volume_estimates") /\ Has(data, "token_estimates") /\ Has(data, "features")
    THEN [workflowData |-> Some(data), estimatorState |-> profileOf(data), threw |-> FALSE]
    ELSE [workflowData |-> Some(data), estimatorState |-> es, threw |-> TRUE]

(***************************************************************************)
(* EstimatorTab's initial state (lines 203-214)                            *)
(***************************************************************************)

\* What EstimatorTab can render with: the argument of useState (lines
\* 204-213) reads initialData?.volume_estimates.workflows_per_day and the
\* like, so an object without volume_estimates, token_estimates or features
\* makes the render throw.
rendersWith(initialData) ==
    IF initialData = None THEN TRUE
    ELSE /\ Has(initialData[1], "volume_estimates")
         /\ Has(initialData[1], "token_estimates")
         /\ Has(initialData[1], "features")

\* The initial value of EstimatorTab's state (lines 203-214); with
\* initialData null every optional chain is undefined and the fallbacks
\* apply.
initialState(initialData) ==
    IF initialData = None
    THEN [transactions_per_month   |-> 100,
          input_tokens             |-> 500,
          output_tokens            |-> 800,
          inter_agent_interactions |-> 1,
          rag_queries              |-> 0,
          db_queries               |-> 0,
          tool_calls               |-> 0,
          memory_ops               |-> 0,
          reflection_enabled       |-> FALSE,
          model_tier               |-> "standard"]
    ELSE LET d == initialData[1] IN
         [transactions_per_month   |->
              OrElse(numberAt(d.volume_estimates, "workflows_per_day"), 100),
          input_tokens             |-> OrElse(numberAt(d.token_estimates, "input_tokens"), 500),
          output_tokens            |-> OrElse(numberAt(d.token_estimates, "output_tokens"), 800),
          inter_agent_interactions |-> OrElse(numberAt(d, "agents_required"), 1),
          rag_queries              |-> IF flagAt(d.features, "rag") THEN 5 ELSE 0,
          db_queries               |-> OrElse(numberAt(d.features, "db_queries"), 0),
          tool_calls               |-> OrElse(numberAt(d.features, "tool_calls"), 0),
          memory_ops               |-> IF flagAt(d.features, "memory") THEN 2 ELSE 0,
          reflection_enabled       |-> (flagAt(d.features, "reflection") \/ FALSE),
          model_tier               |->
              IF Has(d, "recommended_model") /\ includes(d.recommended_model, "GPT-4")
              THEN "premium" ELSE "standard"]

(***************************************************************************)
(* ChatTab (lines 64-199)                                                  *)
(***************************************************************************)

\* A ChatMessage (lines 16-20) without its timestamp, which nothing reads.
Message(role, content) == [role |-> role, content |-> content]

\* messages.map(...).slice(-4) (lines 89-92, 102).
conversationHistory(msgs) ==
    IF Len(msgs) <= 4 THEN msgs ELSE SubSeq(msgs, Len(msgs) - 3, Len(msgs))

Remove(seq, i) == SubSeq(seq, 1, i - 1) \o SubSeq(seq, i + 1, Len(seq))

\* The early return of line 76: !input.trim() || loading.
ignoresSubmit(inp, isLoading) == trim(inp) = <<>> \/ isLoading

\* ChatTab is on the page: its tab is selected and no render has thrown.
ChatTabMounted == activeTab = "chat" /\ ~renderError

\* onChange of the input (line 188); the input is disabled while loading
\* (line 190).  Nothing is typed once MaxRequests requests were sent.
onChange ==
    /\ ChatTabMounted
    /\ ~loading
    /\ fetches < MaxRequests
    /\ \E value \in Inputs : input' = value
    /\ UNCHANGED <<messages, loading, pending, fetches, lastSubmit, consoleErrors,
                   pageVars, calcVars, tabVars>>

\* A submit event of the form (line 185) up to the first await of
\* sendMessage (lines 74-121).  The updates of lines 84-86 are applied by
\* the render that follows the handler, before any reply can arrive.
sendMessage ==
    /\ ChatTabMounted
    /\ IF ignoresSubmit(input, loading)
       THEN /\ lastSubmit' = "ignored"
            /\ UNCHANGED <<messages, input, loading, pending, fetches>>
       ELSE /\ messages' = Append(messages, Message("user", input))
            /\ input' = <<>>
            /\ loading' = TRUE
            /\ pending' = Append(pending,
                                 [stage   |-> "fetch",
                                  message |-> input,
                                  history |-> conversationHistory(messages),
                                  data    |-> None,
                                  mounted |-> TRUE])
            /\ fetches' = fetches + 1
            /\ lastSubmit' = "accepted"
    /\ UNCHANGED <<consoleErrors, pageVars, calcVars, tabVars>>

\* The finally block (lines 147-149): the value of loading after the try
\* statement, whether or not it threw.
loadingAfter(thrown) == FALSE

\* setMessages and setLoading called by request i: the setters of the
\* ChatTab that sent it, which do nothing once that ChatTab is unmounted.
setMessages(i, value) == messages' = IF pending[i].mounted THEN value ELSE messages
setLoading(i, value) == loading' = IF pending[i].mounted THEN value ELSE loading

\* The catch and finally blocks (lines 145-149) for request i.
catchFinally(i) ==
    /\ consoleErrors' = consoleErrors + 1
    /\ setLoading(i, loadingAfter(TRUE))
    /\ pending' = Remove(pending, i)

\* await fetch(...) rejects (line 94).
fetchRejects(i) ==
    /\ pending[i].stage = "fetch"
    /\ catchFinally(i)
    /\ UNCHANGED <<messages, input, fetches, lastSubmit, pageVars, calcVars, tabVars>>

\* await fetch(...) resolves and res.json() is called (lines 94, 123).
fetchResolves(i) ==
    /\ pending[i].stage = "fetch"
    /\ pending' = [pending EXCEPT ![i].stage = "json"]
    /\ UNCHANGED <<messages, input, loading, fetches, lastSubmit, consoleErrors,
                   pageVars, calcVars, tabVars>>

\* await res.json() rejects: the body is not JSON (line 123).
jsonRejects(i) ==
    /\ pending[i].stage = "json"
    /\ catchFinally(i)
    /\ UNCHANGED <<messages, input, fetches, lastSubmit, pageVars, calcVars, tabVars>>

\* The reply texts of the agent: none, prose, an object with
\* business_problem only, each of the complete workflow objects, and a
\* complete workflow object followed by text with a closing brace in it,
\* which the match runs on to.
ReplyTexts ==
    {<<>>,
     <<"w">>,
     <<"{", "bp", "}">>,
     <<"{", "wf", "}">>,
     <<"{", "wfBudget", "}">>,
     <<"{", "wfPlain", "}">>,
     <<"{", "wf", "}", "wf">>}

\* The reply objects, given by their members.
ReplyObjects == {<<>>, <<"wf">>}

\* The values res.json() may resolve to: null; an object whose success is
\* false; an object whose success is true and whose response is a string or
\* an object.
DataValues ==
    {[isNull |-> TRUE, success |-> FALSE, isString |-> TRUE, body |-> <<>>]}
    \cup {[isNull |-> FALSE, success |-> FALSE, isString |-> TRUE, body |-> b] :
             b \in {<<"{", "wf", "}">>}}
    \cup {[isNull |-> FALSE, success |-> TRUE, isString |-> TRUE, body |-> b] :
             b \in ReplyTexts}
    \cup {[isNull |-> FALSE, success |-> TRUE, isString |-> FALSE, body |-> b] :
             b \in ReplyObjects}

\* await res.json() resolves with data (line 123).
jsonResolves(i) ==
    /\ pending[i].stage = "json"
    /\ \E data \in DataValues :
          pending' = [pending EXCEPT ![i].stage = "data", ![i].data = Some(data)]
    /\ UNCHANGED <<messages, input, loading, fetches, lastSubmit, consoleErrors,
                   pageVars, calcVars, tabVars>>

\* Line 126.
responseTextOf(data) == IF data.isString THEN data.body ELSE JSONstringify(data.body)

\* data.success && data.response (line 125): the empty string is falsy, an
\* object is truthy.
isSuccessful(data) == data.success /\ ~(data.isString /\ data.body = <<>>)

\* Lines 129 and 132 on every response text, as an explicit table: whether
\* the pattern matches, and what JSON.parse makes of the match.
Extraction ==
    [text \in ReplyTexts \cup {JSONstringify(members) : members \in ReplyObjects} |->
        LET match == jsonMatch(text)
        IN  IF match = None
            THEN [matched |-> FALSE, parsed |-> [ok |-> FALSE, value |-> None]]
            ELSE [matched |-> TRUE, parsed |-> JSONparse(match[1])]] @@ <<>>

\* Lines 129-137: the page state after the extraction attempt; error says
\* whether an error leaves the inner try statement, which its catch clause
\* (line 134) never lets happen.
tryExtract(text, wd, es) ==
    IF ~Extraction[text].matched
    THEN [workflowData |-> wd, estimatorState |-> es, error |-> FALSE]
    ELSE IF ~Extraction[text].parsed.ok
    THEN [workflowData |-> wd, estimatorState |-> es, error |-> FALSE]
    ELSE LET h == handleWorkflowExtracted(Extraction[text].parsed.value[1], wd, es)
         IN  [workflowData   |-> h.workflowData,
              estimatorState |-> h.estimatorState,
              error          |-> FALSE]

\* The page is rendered after an update.  EstimatorTab, while its tab is
\* selected, evaluates the object literal of lines 204-213 in every render:
\* with a workflowData that lacks volume_estimates, token_estimates or
\* features the render throws and nothing is on the page any more.
\* Otherwise EstimatorTab has the local state est and its effect is due or
\* not, and ResultsTab (lines 512-513), while its tab is selected, calls
\* CostCalculator with the page's estimatorState.
render(est, due) ==
    IF activeTab' = "estimator" /\ ~rendersWith(workflowData')
    THEN /\ renderError' = TRUE
         /\ estimator' = None
         /\ effectPending' = FALSE
         /\ state' = None
         /\ costs' = None
    ELSE /\ renderError' = renderError
         /\ estimator' = est
         /\ effectPending' = due
         /\ state' = IF activeTab' = "results" THEN Some(estimatorState') ELSE None
         /\ costs' = IF activeTab' = "results"
                     THEN Some(CostCalculator(estimatorState')) ELSE None

\* sendMessage resumed with data (lines 123-149).  An effect that is due
\* runs first.  The setters of a page that is no longer rendered do nothing.
sendMessageResume(i) ==
    /\ pending[i].stage = "data"
    /\ ~effectPending
    /\ LET data == pending[i].data[1]
       IN  IF data.isNull
           THEN \* data.success throws a TypeError (line 125)
                /\ catchFinally(i)
                /\ UNCHANGED <<messages, pageVars>>
           ELSE IF isSuccessful(data)
           THEN LET text == responseTextOf(data)
                    x == tryExtract(text, workflowData, estimatorState)
                IN  /\ workflowData' = IF renderError THEN workflowData ELSE x.workflowData
                    /\ estimatorState' = IF renderError THEN estimatorState
                                                          ELSE x.estimatorState
                    /\ IF x.error
                       THEN /\ catchFinally(i)
                            /\ UNCHANGED messages
                       ELSE /\ setMessages(i, Append(messages, Message("assistant", text)))
                            /\ setLoading(i, loadingAfter(FALSE))
                            /\ pending' = Remove(pending, i)
                            /\ UNCHANGED consoleErrors
           ELSE /\ setLoading(i, loadingAfter(FALSE))
                /\ pending' = Remove(pending, i)
                /\ UNCHANGED <<messages, consoleErrors, pageVars>>
    /\ UNCHANGED <<input, fetches, lastSubmit, activeTab>>
    /\ render(estimator, effectPending)

(***************************************************************************)
(* EstimatorTab (lines 202-408), the tabs of HomePage (lines 697-735) and  *)
(* the page                                                                *)
(***************************************************************************)

\* handleSliderChange (lines 220-222): value[0] is stored under key.  The
\* handler is called with [val] (line 268 and the like), and val is what
\* SliderInput's onChange is called with, the number[] that Slider hands to
\* its onValueChange (lines 424, 434): value[0] is the array val.
handleSliderChange(prev, key, value) ==
    withArrays([prev EXCEPT ![key] = value[1][1]], arraysOf(prev) \cup {key})

\* The updaters of the five feature toggles (lines 315-318, 336-339,
\* 357-360, 378-381, 399-402); what they store is a number.
toggled(prev, feature) ==
    CASE feature = "rag_queries" ->
             withArrays([prev EXCEPT !.rag_queries = IF prev.rag_queries > 0 THEN 0 ELSE 5],
                        arraysOf(prev) \ {feature})
      [] feature = "memory_ops" ->
             withArrays([prev EXCEPT !.memory_ops = IF prev.memory_ops > 0 THEN 0 ELSE 2],
                        arraysOf(prev) \ {feature})
      [] feature = "db_queries" ->
             withArrays([prev EXCEPT !.db_queries = IF prev.db_queries > 0 THEN 0 ELSE 2],
                        arraysOf(prev) \ {feature})
      [] feature = "tool_calls" ->
             withArrays([prev EXCEPT !.tool_calls = IF prev.tool_calls > 0 THEN 0 ELSE 2],
                        arraysOf(prev) \ {feature})
      [] feature = "reflection_enabled" ->
             [prev EXCEPT !.reflection_enabled = ~prev.reflection_enabled]

Toggles == {"rag_queries", "memory_ops", "db_queries", "tool_calls", "reflection_enabled"}

\* The arrays Slider hands over here: some of the steps of the ranges of
\* lines 262-278 and 320-329 (min 10 step 100; min 100 step 100; min 1
\* step 1).
SliderValues ==
    [transactions_per_month |-> {<<10>>}, input_tokens |-> {<<100>>}, rag_queries |-> {<<1>>}]

\* A slider is on the page: the feature sliders only while their feature is
\* enabled (lines 320, 341, 362, 383).
sliderShown(st, key) ==
    key \in {"rag_queries", "memory_ops", "db_queries", "tool_calls"} => st[key] > 0

\* A TabsTrigger is pressed (lines 699-701): the content of the tab left is
\* unmounted and that of the tab selected is mounted.  ChatTab unmounted
\* loses its state, and the requests it sent go on (lines 65-67, 94);
\* EstimatorTab starts from initialState(workflowData) with its effect due
\* (lines 203-218, 729).  Effects that are due run before the next event is
\* handled.
selectTab(tab) ==
    /\ ~renderError
    /\ ~effectPending
    /\ tab # activeTab
    /\ activeTab' = tab
    /\ IF activeTab = "chat"
       THEN /\ messages' = <<>>
            /\ input' = <<>>
            /\ loading' = FALSE
            /\ pending' = [i \in DOMAIN pending |-> [pending[i] EXCEPT !.mounted = FALSE]]
       ELSE UNCHANGED <<messages, input, loading, pending>>
    /\ UNCHANGED <<fetches, lastSubmit, consoleErrors, pageVars>>
    /\ IF tab = "estimator" /\ rendersWith(workflowData)
       THEN render(Some(initialState(workflowData)), TRUE)
       ELSE render(None, FALSE)

\* The effect of lines 216-218: onStateChange is setEstimatorState (line 729).
onStateChange ==
    /\ estimator # None
    /\ effectPending
    /\ estimatorState' = estimator[1]
    /\ UNCHANGED <<chatVars, workflowData, activeTab>>
    /\ render(estimator, FALSE)

\* A slider is moved (lines 262-269 and the like): a new state object, so the
\* effect is due again.
onSliderChange(key, val) ==
    /\ estimator # None
    /\ ~effectPending
    /\ sliderShown(estimator[1], key)
    /\ UNCHANGED <<chatVars, pageVars, activeTab>>
    /\ render(Some(handleSliderChange(estimator[1], key, <<val>>)), TRUE)

\* A feature is switched (FeatureToggle.onToggle).
onToggle(feature) ==
    /\ estimator # None
    /\ ~effectPending
    /\ UNCHANGED <<chatVars, pageVars, activeTab>>
    /\ render(Some(toggled(estimator[1], feature)), TRUE)

\* A tier is chosen in the Select (line 241).
onValueChange(val) ==
    /\ estimator # None
    /\ ~effectPending
    /\ UNCHANGED <<chatVars, pageVars, activeTab>>
    /\ render(Some([estimator[1] EXCEPT !.model_tier = val]), TRUE)

\* The page after construction.
Init ==
    /\ InitPage
    /\ state = None
    /\ costs = None

\* A request of the ChatTab on the page goes one step on: its fetch settles,
\* its res.json() settles, sendMessage resumes.
fetchSettles ==
    \E i \in DOMAIN pending : pending[i].mounted /\ (fetchRejects(i) \/ fetchResolves(i))
jsonSettles ==
    \E i \in DOMAIN pending : pending[i].mounted /\ (jsonRejects(i) \/ jsonResolves(i))
resumes ==
    \E i \in DOMAIN pending : pending[i].mounted /\ sendMessageResume(i)

Next ==
    \/ onChange
    \/ sendMessage
    \/ \E i \in DOMAIN pending : fetchRejects(i)
    \/ \E i \in DOMAIN pending : fetchResolves(i)
    \/ \E i \in DOMAIN pending : jsonRejects(i)
    \/ \E i \in DOMAIN pending : jsonResolves(i)
    \/ \E i \in DOMAIN pending : sendMessageResume(i)
    \/ \E tab \in {"chat", "estimator", "results"} : selectTab(tab)
    \/ onStateChange

Spec == Init /\ [][Next]_vars

\* The same, with every await of a request of the ChatTab on the page
\* settling (the fetch and res.json() alike) and sendMessage resumed after
\* it.  Nothing is assumed of the requests of a ChatTab that was unmounted.
SpecLive ==
    /\ Spec
    /\ WF_vars(fetchSettles)
    /\ WF_vars(jsonSettles)
    /\ WF_vars(resumes)

\* The page with the controls of EstimatorTab, for one message "a" sent and
\* a successful reply with a text: what the chat does is the steps of Next.
NextEstimator ==
    \/ fetches = 0 /\ onChange /\ input' = <<"a">>
    \/ fetches = 0 /\ input # <<>> /\ sendMessage
    \/ \E i \in DOMAIN pending : fetchResolves(i)
    \/ \E i \in DOMAIN pending :
          jsonResolves(i) /\ isSuccessful(pending'[i].data[1]) /\ pending'[i].data[1].isString
    \/ \E i \in DOMAIN pending : sendMessageResume(i)
    \/ \E tab \in {"chat", "estimator", "results"} : selectTab(tab)
    \/ onStateChange
    \/ \E key \in DOMAIN SliderValues : \E val \in SliderValues[key] : onSliderChange(key, val)
    \/ \E feature \in Toggles : onToggle(feature)
    \/ \E val \in ModelTiers : onValueChange(val)

SpecEstimator == Init /\ [][NextEstimator]_vars

(***************************************************************************)
(* Properties of CostCalculator, under SpecCalc.  The right-hand sides are *)
(* written from the cost formula as rationals: token counts in tenths of a *)
(* token (0.3 is 3 tenths), prices in halves of a dollar (0.50 is 1 half), *)
(* costs in units of 1 / 20,000,000 dollar.                                *)
(***************************************************************************)

\* x * 2^(-x.e) * d and n * 2^(-x.e), or both times 2^(x.e) more: the two
\* sides of comparing the number x with the rational n / d, as integers.
Sides(x, n, d) ==
    [left  |-> ShiftLeft(BigMul(x.m, Digits(d)), IF x.e > 0 THEN x.e ELSE 0),
     right |-> ShiftLeft(Digits(n), IF x.e < 0 THEN 0 - x.e ELSE 0)]

\* The number x is the rational n / d.
Exactly(x, n, d) == Sides(x, n, d).left = Sides(x, n, d).right

\* The number x is the rational n / d to within the relative error 2^-49
\* (the formula rounds at most fourteen times, each time by at most 2^-53).
Near(x, n, d) ==
    LET sd == Sides(x, n, d)
        diff == IF BigCmp(sd.left, sd.right) >= 0
                THEN BigSub(sd.left, sd.right) ELSE BigSub(sd.right, sd.left)
    IN  BigCmp(ShiftLeft(diff, 49), sd.right) <= 0

\* The distance of two values m * 2^e, not rounded.
Distance(x, y) ==
    LET al == Aligned(x, y)
    IN  [m |-> IF BigCmp(al.x, al.y) >= 0 THEN BigSub(al.x, al.y) ELSE BigSub(al.y, al.x),
         e |-> al.e]

\* x <= y for two values m * 2^e, whether m is odd or not.
AtMost(x, y) == BigCmp(Aligned(x, y).x, Aligned(x, y).y) <= 0

\* x - y as the language computes it, for x >= y.
Minus(x, y) == LET d == Distance(x, y) IN Round(d.m, d.e, FALSE)

\* CostCalculator on every profile of the bounded set, worked out once.
CostOf == [p \in Profiles |-> CostCalculator(p)]

\* The example profile: 100 transactions, 500 in, 800 out, one hop, no
\* feature, standard tier.
ExampleProfile == DefaultEstimatorState

\* The cost formula as a closed expression, in tenths of a token.
ExpectedInputTokens(p) ==
    LET T == p.transactions_per_month
    IN  10 * T * p.input_tokens
        + 3 * T * p.inter_agent_interactions * (p.input_tokens + p.output_tokens)
        + 10 * 200 * p.rag_queries * T
        + 10 * 150 * p.db_queries * T
        + 10 * 100 * p.tool_calls * T
        + 10 * 100 * p.memory_ops * T
        + (IF p.reflection_enabled THEN 10 * 300 * T ELSE 0)

\* The price table in halves of a dollar: budget(0.50, 1.50), standard(3, 9),
\* premium(5, 15).
ExpectedInputPrice(tier) ==
    CASE tier = "budget" -> 1 [] tier = "standard" -> 6 [] tier = "premium" -> 10

ExpectedOutputPrice(tier) ==
    CASE tier = "budget" -> 3 [] tier = "standard" -> 18 [] tier = "premium" -> 30

\* x is the number nearest to the rational n / d, which is n / d itself
\* when n / d is a number.
NearestTo(x, n, d) == x = Over(Num(n), d)

\* C1 as stated: for every profile and tier each field of the breakdown is
\* the value of the closed formula in exact rational arithmetic, or the
\* number nearest to it where the value is not a number: inputTokens,
\* outputTokens = T*out, each cost tokens / 1,000,000 * price(tier), and
\* totalMonthly their sum.
C1_Exact ==
    costs # None =>
        LET p == state[1]
            c == costs[1]
            outTenths == 10 * p.transactions_per_month * p.output_tokens
            inUnits == ExpectedInputTokens(p) * ExpectedInputPrice(p.model_tier)
            outUnits == outTenths * ExpectedOutputPrice(p.model_tier)
        IN  /\ NearestTo(c.inputTokens, ExpectedInputTokens(p), 10)
            /\ NearestTo(c.outputTokens, outTenths, 10)
            /\ NearestTo(c.inputCost, inUnits, 20000000)
            /\ NearestTo(c.outputCost, outUnits, 20000000)
            /\ NearestTo(c.totalMonthly, inUnits + outUnits, 20000000)

\* C1: for every profile and tier the breakdown is the closed formula, read
\* in rational arithmetic, to within the rounding of the numbers:
\* inputTokens = T*in + T*hops*(in+out)*3/10 + 200*rag*T + 150*db*T
\* + 100*tools*T + 100*mem*T + (reflection ? 300*T : 0), outputTokens = T*out,
\* each cost is tokens / 1,000,000 * price(tier), totalMonthly is their sum;
\* the example profile gives the numbers 89000, 0.267, 0.72 and 0.987.
C1_Formula ==
    costs # None =>
        LET p == state[1]
            c == costs[1]
            outTenths == 10 * p.transactions_per_month * p.output_tokens
            inUnits == ExpectedInputTokens(p) * ExpectedInputPrice(p.model_tier)
            outUnits == outTenths * ExpectedOutputPrice(p.model_tier)
        IN  /\ Near(c.inputTokens, ExpectedInputTokens(p), 10)
            /\ Exactly(c.outputTokens, outTenths, 10)
            /\ Near(c.inputCost, inUnits, 20000000)
            /\ Near(c.outputCost, outUnits, 20000000)
            /\ Near(c.totalMonthly, inUnits + outUnits, 20000000)
            /\ p = ExampleProfile =>
                /\ c.inputTokens = Num(89000)
                /\ c.inputCost = Decimal(267, 1000)
                /\ c.outputCost = Decimal(72, 100)
                /\ c.totalMonthly = Decimal(987, 1000)

C1_Witness ==
    /\ costs # None
    /\ state[1] = ExampleProfile
    /\ costs[1].totalMonthly = Decimal(987, 1000)

\* The count inputs of the monotonicity claim and the values each may take.
CountValues ==
    [transactions_per_month |-> TransactionValues,
     input_tokens           |-> InputTokenValues,
     output_tokens          |-> OutputTokenValues,
     rag_queries            |-> RagValues,
     db_queries             |-> DbValues,
     tool_calls             |-> ToolValues,
     memory_ops             |-> MemoryValues]

\* C2: raising one of transactions_per_month, input_tokens, output_tokens,
\* rag_queries, db_queries, tool_calls, memory_ops, with the tier, the
\* reflection flag and every other input held, never lowers totalMonthly.
C2_Monotone ==
    costs # None =>
        \A f \in DOMAIN CountValues : \A v \in CountValues[f] :
            v > state[1][f] =>
                Cmp(CostOf[[state[1] EXCEPT ![f] = v]].totalMonthly,
                    costs[1].totalMonthly) >= 0

C2_Witness ==
    /\ costs # None
    /\ state[1].memory_ops = 0
    /\ state[1].transactions_per_month = 100
    /\ Cmp(CostOf[[state[1] EXCEPT !.memory_ops = 2]].totalMonthly,
           costs[1].totalMonthly) > 0

\* C3: with every other field identical, totalMonthly(budget) <=
\* totalMonthly(standard) <= totalMonthly(premium).
C3_TierOrdering ==
    costs # None =>
        LET at(tier) == CostOf[[state[1] EXCEPT !.model_tier = tier]].totalMonthly
        IN  /\ Cmp(at("budget"), at("standard")) <= 0
            /\ Cmp(at("standard"), at("premium")) <= 0
            /\ costs[1].totalMonthly = at(state[1].model_tier)

C3_Witness ==
    /\ costs # None
    /\ state[1].model_tier = "standard"
    /\ Cmp(CostOf[[state[1] EXCEPT !.model_tier = "budget"]].totalMonthly,
           costs[1].totalMonthly) < 0
    /\ Cmp(costs[1].totalMonthly,
           CostOf[[state[1] EXCEPT !.model_tier = "premium"]].totalMonthly) < 0

\* The profile with one feature disabled, that feature's token term in whole
\* tokens, and the seven token terms of a profile.
Features == {"rag", "db", "tools", "memory", "reflection"}

Disabled(p, feature) ==
    CASE feature = "rag"        -> [p EXCEPT !.rag_queries = 0]
      [] feature = "db"         -> [p EXCEPT !.db_queries = 0]
      [] feature = "tools"      -> [p EXCEPT !.tool_calls = 0]
      [] feature = "memory"     -> [p EXCEPT !.memory_ops = 0]
      [] feature = "reflection" -> [p EXCEPT !.reflection_enabled = FALSE]

FeatureTerm(p, feature) ==
    LET T == p.transactions_per_month
    IN  CASE feature = "rag"        -> 200 * p.rag_queries * T
          [] feature = "db"         -> 150 * p.db_queries * T
          [] feature = "tools"      -> 100 * p.tool_calls * T
          [] feature = "memory"     -> 100 * p.memory_ops * T
          [] feature = "reflection" -> IF p.reflection_enabled THEN 300 * T ELSE 0

Terms(p) ==
    [base       |-> totalInputTokens(p),
     hops       |-> interAgentTokens(p),
     rag        |-> ragTokens(p),
     db         |-> dbQueryTokens(p),
     tools      |-> toolCallTokens(p),
     memory     |-> memoryTokens(p),
     reflection |-> reflectionTokens(p)]

\* C4 as stated: disabling one feature lowers inputTokens by exactly that
\* feature's term (old inputTokens - new inputTokens is the term) and leaves
\* outputTokens and outputCost as they were.
C4_ExactDifference ==
    costs # None =>
        \A feature \in Features :
            LET off == CostOf[Disabled(state[1], feature)]
            IN  /\ Minus(costs[1].inputTokens, off.inputTokens)
                       = Num(FeatureTerm(state[1], feature))
                /\ off.outputTokens = costs[1].outputTokens
                /\ off.outputCost = costs[1].outputCost

\* C4: disabling one feature makes that feature's term 0 and changes no
\* other token term, outputTokens or outputCost; inputTokens, the sum of the
\* terms, does not rise, and falls by the term to within the rounding of the
\* two sums (2^-49 of the old inputTokens).
C4_DisableFeature ==
    costs # None =>
        LET old == costs[1].inputTokens
            terms == Terms(state[1])
            bound == [m |-> old.m, e |-> old.e - 49]
        IN  \A feature \in Features :
                LET off == CostOf[Disabled(state[1], feature)]
                    fall == Distance(old, off.inputTokens)
                    term == Num(FeatureTerm(state[1], feature))
                IN  /\ Terms(Disabled(state[1], feature)) = [terms EXCEPT ![feature] = Zero]
                    /\ terms[feature] = term
                    /\ Cmp(off.inputTokens, old) <= 0
                    /\ AtMost(Distance(fall, term), bound)
                    /\ off.outputTokens = costs[1].outputTokens
                    /\ off.outputCost = costs[1].outputCost

\* The tools overhead is disabled where the two sums round differently: the
\* difference of the inputTokens is not the term of 200 tokens.
C4_Witness ==
    /\ costs # None
    /\ state[1].tool_calls = 2
    /\ state[1].transactions_per_month = 1
    /\ Terms(state[1]).tools = Num(200)
    /\ Terms(Disabled(state[1], "tools")).tools = Zero
    /\ Minus(costs[1].inputTokens,
             CostOf[Disabled(state[1], "tools")].inputTokens) # Num(200)

\* C5: with transactions_per_month = 0 every token and cost field is 0,
\* whatever the other inputs.
C5_ZeroTransactions ==
    (costs # None /\ state[1].transactions_per_month = 0) =>
        /\ costs[1].inputTokens = Zero
        /\ costs[1].outputTokens = Zero
        /\ costs[1].inputCost = Zero
        /\ costs[1].outputCost = Zero
        /\ costs[1].totalMonthly = Zero
        /\ costs[1].totalAnnual = Zero

C5_Witness ==
    /\ costs # None
    /\ state[1].transactions_per_month = 0
    /\ state[1].reflection_enabled
    /\ state[1].input_tokens = 500
    /\ state[1].rag_queries = 5
    /\ state[1].model_tier = "premium"

\* C6: totalAnnual is exactly 12 times the totalMonthly of the same result:
\* the number totalMonthly * 12.
C6_Annual ==
    costs # None => costs[1].totalAnnual = Times(costs[1].totalMonthly, Num(12))

C6_Witness ==
    /\ costs # None
    /\ costs[1].totalMonthly = Decimal(987, 1000)
    /\ costs[1].totalAnnual = Decimal(11844, 1000)

(***************************************************************************)
(* Properties of ChatTab.sendMessage, under Spec and SpecLive              *)
(***************************************************************************)

\* Request i is resumed with its data in this step.
Resumed(i) == pending[i].stage = "data" /\ pending' = Remove(pending, i)

\* Request i ends in this step, at whichever await it was.
Settled(i) == pending' = Remove(pending, i)

\* The reply text holds a brace, later the key, later a brace.
HasSpan(text) ==
    LET t == Expand(text)
    IN  \E i \in DOMAIN t : \E j \in DOMAIN t : \E k \in DOMAIN t :
            i < j /\ j < k /\ t[i] = "{" /\ HasKey(t[j]) /\ t[k] = "}"

\* No workflow can be taken from the text: no span, or a span that is not
\* JSON.
NothingToExtract(text) ==
    \/ ~HasSpan(text)
    \/ jsonMatch(text) # None /\ ~JSONparse(jsonMatch(text)[1]).ok

\* C8: when a successful reply's text has no {..."business_problem"...} span,
\* or the span does not parse, the failure is ignored silently: workflowData
\* and estimatorState stay as they were, nothing reaches console.error or the
\* caller, and the reply text is appended as an assistant message.
C8_ParseFailureIgnored ==
    [][\A i \in DOMAIN pending :
          (/\ Resumed(i)
           /\ isSuccessful(pending[i].data[1])
           /\ NothingToExtract(responseTextOf(pending[i].data[1])))
          => /\ workflowData' = workflowData
             /\ estimatorState' = estimatorState
             /\ consoleErrors' = consoleErrors
             /\ messages' = Append(messages,
                                   Message("assistant", responseTextOf(pending[i].data[1])))
      ]_vars

Blank(str) == \A i \in DOMAIN str : str[i] = " "

\* This step is a submit event that did something or changed what the last
\* one did.
Submitted == lastSubmit' # lastSubmit \/ fetches' # fetches

\* C9: at most one request is in flight at any time; a submit while
\* loading, or with blank input, issues no fetch and leaves messages, input
\* and loading as they were; every other submit appends one user message,
\* sets loading and issues one fetch.
C9_OneRequest ==
    /\ [](Len(pending) <= 1)
    /\ [][Submitted =>
            IF loading \/ Blank(input)
            THEN /\ lastSubmit' = "ignored"
                 /\ UNCHANGED <<messages, input, loading, pending, fetches>>
            ELSE /\ lastSubmit' = "accepted"
                 /\ messages' = Append(messages, Message("user", input))
                 /\ loading'
                 /\ fetches' = fetches + 1
                 /\ Len(pending') = Len(pending) + 1
         ]_vars

\* C10: once the awaits settle, loading returns to false on every outcome;
\* an assistant message is appended on the successful outcome only, and on
\* every other outcome messages stays as it was, user message included.
C10_LoadingReset ==
    /\ loading ~> ~loading
    /\ [][\A i \in DOMAIN pending :
            Settled(i) =>
                IF pending[i].stage = "data" /\ isSuccessful(pending[i].data[1])
                THEN messages' = Append(messages,
                                        Message("assistant",
                                                responseTextOf(pending[i].data[1])))
                ELSE messages' = messages
         ]_vars


(***************************************************************************)
(* Properties of the page and its tabs, under SpecEstimator and Spec       *)
(***************************************************************************)

\* C11: while EstimatorTab is mounted and its effect is not due, the profile
\* the page hands to ResultsTab (estimatorState) equals EstimatorTab's local
\* profile, field for field.
C11_LocalProfilePropagated ==
    (estimator # None /\ ~effectPending) => estimatorState = estimator[1]

\* C12: workflow extraction is all or nothing: workflowData is set only
\* together with the profile built from the same object, so an object that
\* lacks volume_estimates, token_estimates or features never becomes
\* workflowData.
C12_AllOrNothing ==
    IF workflowData = None THEN TRUE
    ELSE IF ~rendersWith(workflowData) THEN FALSE
    ELSE estimatorState = profileOf(workflowData[1])

\* C13: for the well-formed workflow object the page holds, the profile
\* handleWorkflowExtracted stores for it equals the profile EstimatorTab
\* starts from when it is mounted with that object as initialData.
C13_DerivationsAgree ==
    IF workflowData = None THEN TRUE
    ELSE IF ~rendersWith(workflowData) THEN TRUE
    ELSE initialState(workflowData)
           = handleWorkflowExtracted(workflowData[1], None,
                                     DefaultEstimatorState).estimatorState

=============================================================================
